---- MODULE Spec2Model ----
(***************************************************************************)
(* A model of lib/index.js: the URLHash class, a codec between an ordered  *)
(* option map and a URL fragment string, with a one-entry decode cache.    *)
(*                                                                         *)
(* JavaScript values are tagged records, strings are TLA+ strings, a plain *)
(* object is the sequence of its own <<name, value>> properties in         *)
(* insertion order (no integer-like names are used, so insertion order is  *)
(* enumeration order), and the option maps that the cache and the caller   *)
(* can share live in a heap and are named by reference.                    *)
(***************************************************************************)
EXTENDS Integers, Sequences, FiniteSets, TLC

VARIABLES
  location,   \* the fragment store behind getHash()/setHash(): location.hash
  lastHash,   \* this._lastHash
  lastOpts,   \* this._lastOpts
  heap,       \* the option-map objects reachable from the cache or the caller
  cfg,        \* shortOpt, autoArray, _json, _getters, _setters
  op,         \* the last call made on the instance, with what it returned
  steps       \* number of calls made so far

vars == <<location, lastHash, lastOpts, heap, cfg, op, steps>>

\* Calls made on one instance in a run
MaxSteps == 3

----------------------------------------------------------------------------
(* JavaScript values *)

Undef == [t |-> "undefined"]
Null == [t |-> "null"]
Bool(b) == [t |-> "boolean", v |-> b]
Num(n) == [t |-> "number", v |-> n]
Str(s) == [t |-> "string", v |-> s]
Arr(items) == [t |-> "array", v |-> items]
Obj(props) == [t |-> "plain", v |-> props]
Ref(r) == [t |-> "ref", v |-> r]
Func == [t |-> "function"]
RegExp(name) == [t |-> "regexp", v |-> name]

\* const {F,O,B,N,S} = core.types: the typeof strings
F == "function"
O == "object"
B == "boolean"
N == "number"
S == "string"

TypeOf(x) ==
  CASE x.t \in {"null", "array", "plain", "ref", "regexp"} -> O
    [] x.t = "undefined" -> "undefined"
    [] OTHER -> x.t

\* ToBoolean, as used by `a && b` and `if (a)`
Truthy(x) ==
  CASE x.t \in {"undefined", "null"} -> FALSE
    [] x.t = "boolean" -> x.v
    [] x.t = "number" -> x.v # 0
    [] x.t = "string" -> x.v # ""
    [] OTHER -> TRUE

\* ToString of a string or an (integer) number, as done by `assign + item`
ToStr(x) == IF x.t = "number" THEN ToString(x.v) ELSE x.v

JSON_ALL == RegExp("JSON_ALL")
JSON_ARR == RegExp("JSON_ARR")
JSON_OBJ == RegExp("JSON_OBJ")
TRUE_RE == RegExp("true|yes")
FALSE_RE == RegExp("false|no")

----------------------------------------------------------------------------
(* Strings *)

Max(a, b) == IF a > b THEN a ELSE b

Min(a, b) == IF a < b THEN a ELSE b

\* String.prototype.substring on 1-based, inclusive positions
Sub(s, i, j) ==
  IF Max(i, 1) > Min(j, Len(s)) THEN "" ELSE SubSeq(s, Max(i, 1), Min(j, Len(s)))

CharAt(s, i) == Sub(s, i, i)

From(s, i) == Sub(s, i, Len(s))

Least(positions) ==
  IF positions = {} THEN 0 ELSE CHOOSE i \in positions : \A j \in positions : i <= j

\* String.prototype.indexOf, 1-based; 0 when absent
IndexOf(s, p) == Least({i \in 1..(Len(s) - Len(p) + 1) : Sub(s, i, i + Len(p) - 1) = p})

\* String.prototype.split with a non-empty string separator
RECURSIVE Split(_, _)
SplitAt(s, sep, i) ==
  IF i = 0 THEN <<s>>
  ELSE <<Sub(s, 1, i - 1)>> \o Split(From(s, i + Len(sep)), sep)

Split(s, sep) == SplitAt(s, sep, IndexOf(s, sep))

UpperCase == "ABCDEFGHIJKLMNOPQRSTUVWXYZ"
LowerCase == "abcdefghijklmnopqrstuvwxyz"

LowerAt(c, i) == IF i = 0 THEN c ELSE CharAt(LowerCase, i)

RECURSIVE ToLower(_)
ToLower(s) ==
  IF s = "" THEN ""
  ELSE LowerAt(CharAt(s, 1), IndexOf(UpperCase, CharAt(s, 1))) \o ToLower(From(s, 2))

\* String.prototype.match(m) !== null, for the matchers the class is given:
\* the three JSON shape patterns, the two default boolean patterns, and a
\* string (which match() compiles to a pattern: substring search).
Match(input, m) ==
  CASE m = JSON_ARR ->
         Len(input) >= 2 /\ CharAt(input, 1) = "[" /\ CharAt(input, Len(input)) = "]"
    [] m = JSON_OBJ ->
         Len(input) >= 2 /\ CharAt(input, 1) = "{" /\ CharAt(input, Len(input)) = "}"
    [] m = JSON_ALL ->
         Len(input) >= 2 /\
         \/ CharAt(input, 1) = "[" /\ CharAt(input, Len(input)) = "]"
         \/ CharAt(input, 1) = "{" /\ CharAt(input, Len(input)) = "}"
    [] m = TRUE_RE -> ToLower(input) \in {"true", "yes"}
    [] m = FALSE_RE -> ToLower(input) \in {"false", "no"}
    [] m.t = "string" -> m.v = "" \/ IndexOf(input, m.v) > 0

----------------------------------------------------------------------------
(* Plain objects: own properties in insertion order, Object.prototype behind *)

Keys(o) == [i \in 1..Len(o) |-> o[i][1]]

KeySet(o) == {o[i][1] : i \in 1..Len(o)}

Has(o, k) == k \in KeySet(o)

Own(o, k) == o[CHOOSE i \in 1..Len(o) : o[i][1] = k][2]

ProtoNames == {"constructor", "toString", "valueOf", "hasOwnProperty"}

\* o[k]
Get(o, k) ==
  IF Has(o, k) THEN Own(o, k)
  ELSE IF k \in ProtoNames THEN Func
  ELSE Undef

\* o[k] = v
Put(o, k, v) ==
  IF Has(o, k) THEN [i \in 1..Len(o) |-> IF o[i][1] = k THEN <<k, v>> ELSE o[i]]
  ELSE Append(o, <<k, v>>)

\* delete o[k]
RECURSIVE Del(_, _)
Del(o, k) ==
  IF o = <<>> THEN <<>>
  ELSE IF Head(o)[1] = k THEN Tail(o)
  ELSE <<Head(o)>> \o Del(Tail(o), k)

----------------------------------------------------------------------------
(* JSON.stringify, JSON.parse and decodeURI, for integers, strings without *)
(* control characters, booleans, null, arrays and plain objects            *)

EscapeChar(c) == IF c = "\"" \/ c = "\\" THEN "\\" \o c ELSE c

RECURSIVE Escape(_)
Escape(s) == IF s = "" THEN "" ELSE EscapeChar(CharAt(s, 1)) \o Escape(From(s, 2))

Quote(s) == "\"" \o Escape(s) \o "\""

RECURSIVE JSONstringify(_)
RECURSIVE StringifyItems(_, _)
RECURSIVE StringifyProps(_, _)

\* The elements of an array: undefined and functions are written as null.
StringifyItems(items, first) ==
  IF items = <<>> THEN ""
  ELSE (IF first THEN "" ELSE ",")
       \o (IF Head(items).t \in {"undefined", "function"} THEN "null"
           ELSE JSONstringify(Head(items)))
       \o StringifyItems(Tail(items), FALSE)

\* The properties of an object: undefined and functions are left out.
StringifyProps(props, first) ==
  IF props = <<>> THEN ""
  ELSE IF Head(props)[2].t \in {"undefined", "function"}
    THEN StringifyProps(Tail(props), first)
  ELSE (IF first THEN "" ELSE ",") \o Quote(Head(props)[1]) \o ":"
       \o JSONstringify(Head(props)[2]) \o StringifyProps(Tail(props), FALSE)

JSONstringify(x) ==
  CASE x.t = "null" -> "null"
    [] x.t = "boolean" -> IF x.v THEN "true" ELSE "false"
    [] x.t = "number" -> ToString(x.v)
    [] x.t = "string" -> Quote(x.v)
    [] x.t = "array" -> "[" \o StringifyItems(x.v, TRUE) \o "]"
    [] x.t = "plain" -> "{" \o StringifyProps(x.v, TRUE) \o "}"

Digits == "0123456789"

IsDigit(c) == c # "" /\ IndexOf(Digits, c) > 0

NoParse == [ok |-> FALSE, v |-> Undef, i |-> 0]

Parsed(x, i) == [ok |-> TRUE, v |-> x, i |-> i]

RECURSIVE SkipWs(_, _)
SkipWs(s, i) == IF CharAt(s, i) = " " THEN SkipWs(s, i + 1) ELSE i

\* The end of the run of digits starting at i (i itself when there is none)
RECURSIVE DigitsEnd(_, _)
DigitsEnd(s, i) == IF IsDigit(CharAt(s, i)) THEN DigitsEnd(s, i + 1) ELSE i

RECURSIVE DigitsValue(_, _)
DigitsValue(d, acc) ==
  IF d = "" THEN acc
  ELSE DigitsValue(From(d, 2), 10 * acc + (IndexOf(Digits, CharAt(d, 1)) - 1))

\* number: -?(0|[1-9][0-9]*), d being the digits and e the place after them;
\* a fraction or an exponent is a syntax error here
NumberOf(s, neg, d, e) ==
  IF d = "" \/ (Len(d) > 1 /\ CharAt(d, 1) = "0") \/ CharAt(s, e) \in {".", "e", "E"}
  THEN NoParse
  ELSE Parsed(Num(IF neg THEN 0 - DigitsValue(d, 0) ELSE DigitsValue(d, 0)), e)

ParseDigits(s, neg, b, e) == NumberOf(s, neg, Sub(s, b, e - 1), e)

ParseNumber(s, i) ==
  IF CharAt(s, i) = "-" THEN ParseDigits(s, TRUE, i + 1, DigitsEnd(s, i + 1))
  ELSE ParseDigits(s, FALSE, i, DigitsEnd(s, i))

\* string: the characters after the opening quote, c being the one at i;
\* only \" \\ \/ are recognised escapes
RECURSIVE ParseChars(_, _, _)
ParseChar(s, i, acc, c) ==
  CASE c = "" -> NoParse
    [] c = "\"" -> Parsed(Str(acc), i + 1)
    [] c = "\\" ->
         IF CharAt(s, i + 1) \in {"\"", "\\", "/"}
         THEN ParseChars(s, i + 2, acc \o CharAt(s, i + 1))
         ELSE NoParse
    [] OTHER -> ParseChars(s, i + 1, acc \o c)

ParseChars(s, i, acc) == ParseChar(s, i, acc, CharAt(s, i))

RECURSIVE ParseValue(_, _)
RECURSIVE ParseItems(_, _, _)
RECURSIVE ParseProps(_, _, _)

ItemEnd(s, acc, j) ==
  IF CharAt(s, j) = "," THEN ParseItems(s, j + 1, acc)
  ELSE IF CharAt(s, j) = "]" THEN Parsed(Arr(acc), j + 1)
  ELSE NoParse

AfterItem(s, acc, x) ==
  IF x.ok THEN ItemEnd(s, Append(acc, x.v), SkipWs(s, x.i)) ELSE NoParse

ParseItems(s, i, acc) == AfterItem(s, acc, ParseValue(s, i))

PropEnd(s, acc, j) ==
  IF CharAt(s, j) = "," THEN ParseProps(s, j + 1, acc)
  ELSE IF CharAt(s, j) = "}" THEN Parsed(Obj(acc), j + 1)
  ELSE NoParse

AfterProp(s, acc, k, x) ==
  IF x.ok THEN PropEnd(s, Put(acc, k, x.v), SkipWs(s, x.i)) ELSE NoParse

PropColon(s, acc, k, j) ==
  IF CharAt(s, j) = ":" THEN AfterProp(s, acc, k, ParseValue(s, j + 1)) ELSE NoParse

AfterKey(s, acc, k) ==
  IF k.ok THEN PropColon(s, acc, k.v.v, SkipWs(s, k.i)) ELSE NoParse

PropKey(s, acc, j) ==
  IF CharAt(s, j) = "\"" THEN AfterKey(s, acc, ParseChars(s, j + 1, "")) ELSE NoParse

ParseProps(s, i, acc) == PropKey(s, acc, SkipWs(s, i))

OpenArray(s, j) ==
  IF CharAt(s, j) = "]" THEN Parsed(Arr(<<>>), j + 1) ELSE ParseItems(s, j, <<>>)

OpenObject(s, j) ==
  IF CharAt(s, j) = "}" THEN Parsed(Obj(<<>>), j + 1) ELSE ParseProps(s, j, <<>>)

ParseAt(s, i, c) ==
  CASE c = "[" -> OpenArray(s, SkipWs(s, i + 1))
    [] c = "{" -> OpenObject(s, SkipWs(s, i + 1))
    [] c = "\"" -> ParseChars(s, i + 1, "")
    [] c = "-" \/ IsDigit(c) -> ParseNumber(s, i)
    [] Sub(s, i, i + 3) = "true" -> Parsed(Bool(TRUE), i + 4)
    [] Sub(s, i, i + 4) = "false" -> Parsed(Bool(FALSE), i + 5)
    [] Sub(s, i, i + 3) = "null" -> Parsed(Null, i + 4)
    [] OTHER -> NoParse

ParseFrom(s, i) == ParseAt(s, i, CharAt(s, i))

ParseValue(s, i) == ParseFrom(s, SkipWs(s, i))

ParseEnd(text, x) ==
  IF x.ok /\ SkipWs(text, x.i) = Len(text) + 1 THEN [ok |-> TRUE, v |-> x.v]
  ELSE [ok |-> FALSE, v |-> Undef]

\* JSON.parse(text): [ok, v]; ok = FALSE stands for the SyntaxError thrown
JSONparse(text) == ParseEnd(text, ParseValue(text, 1))

HexDigits == "0123456789ABCDEF"

HexOf(i, j) == IF i > 0 THEN i - 1 ELSE IF j > 0 THEN j + 9 ELSE 0 - 1

HexVal(c) == IF c = "" THEN 0 - 1 ELSE HexOf(IndexOf(HexDigits, c), IndexOf("abcdef", c))

\* The printable ASCII characters, code 32 to 95 and code 97 to 126, in order
AsciiLow == " !\"#$%&'()*+,-./0123456789:;<=>?@ABCDEFGHIJKLMNOPQRSTUVWXYZ[\\]^_"
AsciiHigh == "abcdefghijklmnopqrstuvwxyz{|}~"

FromCharCode(code) ==
  IF code < 96 THEN CharAt(AsciiLow, code - 31) ELSE CharAt(AsciiHigh, code - 96)

NoDecode == [ok |-> FALSE, v |-> ""]

\* decodeURI(s): [ok, v]; ok = FALSE stands for the URIError thrown.  Escapes
\* of the reserved set ;/?:@&=+$,# stay as written; escapes above %7E (the
\* multi-byte sequences), below %20 and %60 are not used by the inputs.
RECURSIVE decodeURI(_)
DecodeRest(s, p, ch, rest) ==
  IF rest.ok
  THEN [ok |-> TRUE,
        v |-> Sub(s, 1, p - 1)
              \o (IF IndexOf(";/?:@&=+$,#", ch) > 0 THEN Sub(s, p, p + 2) ELSE ch)
              \o rest.v]
  ELSE NoDecode

DecodeCode(s, p, code) ==
  IF code < 32 \/ code > 126 \/ code = 96 THEN NoDecode
  ELSE DecodeRest(s, p, FromCharCode(code), decodeURI(From(s, p + 3)))

DecodeEscape(s, p, hi, lo) ==
  IF hi < 0 \/ lo < 0 THEN NoDecode ELSE DecodeCode(s, p, 16 * hi + lo)

DecodeAt(s, p) ==
  IF p = 0 THEN [ok |-> TRUE, v |-> s]
  ELSE DecodeEscape(s, p, HexVal(CharAt(s, p + 1)), HexVal(CharAt(s, p + 2)))

decodeURI(s) == DecodeAt(s, IndexOf(s, "%"))

----------------------------------------------------------------------------
(* The instance.  A method is an operator from the instance state before   *)
(* the call, st = [location, lastHash, lastOpts, heap], the configuration  *)
(* c and the arguments, to the state after the call and what it returned.  *)

State == [location |-> location, lastHash |-> lastHash, lastOpts |-> lastOpts, heap |-> heap]

\* A reference no live object has
NewRef(h) == Least((1..(Cardinality(DOMAIN h) + 1)) \ DOMAIN h)

\* useJson(value): the new this._json, or Undef where it throws
useJson(value) ==
  IF value = Bool(FALSE) THEN Null
  ELSE IF value = Bool(TRUE) THEN JSON_ALL
  ELSE IF value = Str("array") THEN JSON_ARR
  ELSE IF value = Str(O) THEN JSON_OBJ
  ELSE Undef

\* The constructor's defaults for _getters and _setters
DefaultGetters == [separate |-> ";", assign |-> "=", true |-> TRUE_RE, false |-> FALSE_RE]
DefaultSetters == [separate |-> ";", assign |-> "=", true |-> Str("true"), false |-> Str("false")]

\* setSetter(name, value) for name = 'true' or 'false': accepted or thrown
setSetterAccepts(value) == TypeOf(value) = S \/ value = Bool(FALSE)

\* Variant of serializeJsonArray: mode 'both' is forgotten
serializeJsonArrayOnly(c) == c.json = JSON_ARR

serializeJsonArray(c) == c.json = JSON_ARR \/ c.json = JSON_ALL

\* this.json (no underscore) is a property the class never assigns
ThisJson == Undef

\* Variant of serializeJsonObject: objects pass unless the mode is arrays-only
serializeJsonObjectUnlessArr(c) == c.json # JSON_ARR

serializeJsonObject(c) == c.json = JSON_OBJ \/ ThisJson = JSON_ALL

\* try { output = JSON.parse(decodeURI(input)) } catch (e) {}; return output
ParsedOrUndefined(parsed) == IF parsed.ok THEN parsed.v ELSE Undef

DecodedJson(uri) == IF uri.ok THEN ParsedOrUndefined(JSONparse(uri.v)) ELSE Undef

\* getVal(input), the closure of getOpts
getVal(c, input) ==
  IF Truthy(c.json) /\ Match(input, c.json) THEN DecodedJson(decodeURI(input))
  ELSE IF Truthy(c.getters.true) /\ Match(input, c.getters.true) THEN Bool(TRUE)
  ELSE IF Truthy(c.getters.false) /\ Match(input, c.getters.false) THEN Bool(FALSE)
  ELSE Str(input)

\* The body of the loop over segments of getOpts
parseSegment(c, hashOpts, segment, assignment) ==
  IF Len(assignment) = 1 THEN Put(hashOpts, segment, Null)
  ELSE IF Len(assignment) = 2 THEN Put(hashOpts, assignment[1], getVal(c, assignment[2]))
  ELSE Put(hashOpts, assignment[1],
           Arr([i \in 1..(Len(assignment) - 1) |-> Str(assignment[i + 1])]))

\* The loop over segments of getOpts, from segment s on
RECURSIVE parseSegments(_, _, _, _)
parseSegments(c, segments, s, hashOpts) ==
  IF s > Len(segments) THEN hashOpts
  ELSE parseSegments(c, segments, s + 1,
         parseSegment(c, hashOpts, segments[s], Split(segments[s], c.getters.assign)))

\* Variant of stripHash: the marker is left on the first name
stripHashKept(hash) == hash

\* hash.substr(0,1) === '#' ? hash.substr(1) : hash
stripHash(hash) == IF Sub(hash, 1, 1) = "#" THEN From(hash, 2) ELSE hash

parseHash(c, hash, hashOpts) ==
  parseSegments(c, Split(stripHash(hash), c.getters.separate), 1, hashOpts)

\* The arguments object of getOpts and getOpt
NoGetOpts == [hasHash |-> FALSE, hash |-> "", defaults |-> <<>>,
              hasShortOpt |-> FALSE, shortOpt |-> FALSE, default |-> Undef]

\* The arguments object of serialize
NoSetOpts == [hasAutoArray |-> FALSE, autoArray |-> FALSE]

\* getOpts with hash read and hashOpts allocated at reference r
\* Variant of cached: the retained map is never reused
cachedNever(st, hash) == FALSE

\* Variant of cached: the comparison of the strings is forgotten
cachedAnyHash(st, hash) == Truthy(st.lastHash) /\ Truthy(st.lastOpts)

\* this._lastHash && this._lastOpts && this._lastHash === hash
cached(st, hash) ==
  Truthy(st.lastHash) /\ Truthy(st.lastOpts) /\ st.lastHash = Str(hash)

getOptsOf(st, c, go, hash, r) ==
  IF hash # "" /\ hash # "#"
  THEN IF cached(st, hash)
       THEN [st |-> st, ret |-> st.lastOpts.v, hit |-> TRUE, hash |-> hash]
       ELSE [st |-> [st EXCEPT !.lastHash = Str(hash), !.lastOpts = Ref(r),
                               !.heap = (r :> parseHash(c, hash, go.defaults)) @@ st.heap],
             ret |-> r, hit |-> FALSE, hash |-> hash]
  ELSE [st |-> [st EXCEPT !.heap = (r :> go.defaults) @@ st.heap],
        ret |-> r, hit |-> FALSE, hash |-> hash]

\* getOpts(getOpts): ret is the reference returned, hit says it is the cached one
getOpts(st, c, go) ==
  getOptsOf(st, c, go, IF go.hasHash THEN go.hash ELSE st.location, NewRef(st.heap))

\* The lookup of getOpt in the decoded hashOpts
\* Variant of lookupOpt: the lone name is returned whatever its value
lookupOptAnyLone(shortOpt, hashOpts, name, default) ==
  IF Get(hashOpts, name) # Undef THEN Get(hashOpts, name)
  ELSE IF shortOpt /\ Len(hashOpts) = 1 THEN Str(hashOpts[1][1])
  ELSE default

lookupOpt(shortOpt, hashOpts, name, default) ==
  IF Get(hashOpts, name) # Undef THEN Get(hashOpts, name)
  ELSE IF shortOpt /\ Len(hashOpts) = 1 /\ hashOpts[1][2] = Null THEN Str(hashOpts[1][1])
  ELSE default

getOptOf(c, name, go, g) ==
  [st |-> g.st, ret |-> g.ret, hit |-> g.hit, hash |-> g.hash, before |-> g.st.heap[g.ret],
   val |-> lookupOpt(IF go.hasShortOpt THEN go.shortOpt ELSE c.shortOpt,
                     g.st.heap[g.ret], name, go.default)]

\* getOpt(name, getOpts): val is the value returned
getOpt(st, c, name, go) == getOptOf(c, name, go, getOpts(st, c, go))

\* serializeArray(array), the closure of serialize
RECURSIVE serializeArray(_, _)
serializeArray(c, array) ==
  IF array = <<>> THEN ""
  ELSE (IF TypeOf(Head(array)) = S \/ TypeOf(Head(array)) = N
        THEN c.setters.assign \o ToStr(Head(array)) ELSE "")
       \o serializeArray(c, Tail(array))

\* The scan of serialize that sets its local useJson
hasNonScalar(array) ==
  \E a \in 1..Len(array) : TypeOf(array[a]) # S /\ TypeOf(array[a]) # N

Emit(text) == [err |-> "", out |-> text]

Throw(error) == [err |-> error, out |-> ""]

\* What serialize appends after the name of one property, or what it throws
serializeValue(c, autoArray, val) ==
  IF val = Null THEN Emit("")
  ELSE IF val = Bool(TRUE) /\ Truthy(c.setters.true)
    THEN Emit(c.setters.assign \o c.setters.true.v)
  ELSE IF val = Bool(FALSE) /\ Truthy(c.setters.false)
    THEN Emit(c.setters.assign \o c.setters.false.v)
  ELSE IF TypeOf(val) = O
    THEN IF val.t = "array"
         THEN IF serializeJsonArray(c)
              THEN IF autoArray
                   THEN IF hasNonScalar(val.v)
                        THEN Emit(c.setters.assign \o JSONstringify(val))
                        ELSE Emit(serializeArray(c, val.v))
                   ELSE Emit(c.setters.assign \o JSONstringify(val))
              ELSE Emit(serializeArray(c, val.v))
         ELSE IF serializeJsonObject(c)
              THEN Emit(c.setters.assign \o JSONstringify(val))
              ELSE Throw("Error")
  ELSE IF TypeOf(val) = S \/ TypeOf(val) = N
    THEN Emit(c.setters.assign \o ToStr(val))
  ELSE Throw("TypeError")

\* The loop over the properties of serialize, from property i on
RECURSIVE serializeFrom(_, _, _, _, _)
serializeProp(c, autoArray, obj, i, hashString, x) ==
  IF x.err # "" THEN Throw(x.err)
  ELSE serializeFrom(c, autoArray, obj, i + 1,
         hashString \o (IF i > 1 THEN c.setters.separate ELSE "") \o obj[i][1] \o x.out)

serializeFrom(c, autoArray, obj, i, hashString) ==
  IF i > Len(obj) THEN Emit(hashString)
  ELSE serializeProp(c, autoArray, obj, i, hashString,
                     serializeValue(c, autoArray, obj[i][2]))

\* serialize(obj, setOpts): [err, out]; err names the exception thrown, if any
serialize(c, obj, so) ==
  serializeFrom(c, IF so.hasAutoArray THEN so.autoArray ELSE c.autoArray, obj, 1, "#")

\* replace after serialize returned or threw
setHash(st, reps, newstring) ==
  IF newstring.err # ""
  THEN [st |-> st, err |-> newstring.err, sunk |-> FALSE, out |-> ""]
  ELSE [st |-> [st EXCEPT !.lastHash = Str(newstring.out), !.lastOpts = Ref(reps),
                          !.location = newstring.out],
        err |-> "", sunk |-> TRUE, out |-> newstring.out]

\* replace(reps, setOpts), reps being the object at reference reps
replace(st, c, reps, so) == setHash(st, reps, serialize(c, st.heap[reps], so))

\* The loop over the properties of updates in update
RECURSIVE applyUpdates(_, _)
applyUpdates(current, updates) ==
  IF updates = <<>> THEN current
  ELSE applyUpdates(IF Head(updates)[2] = Undef THEN Del(current, Head(updates)[1])
                    ELSE Put(current, Head(updates)[1], Head(updates)[2]),
                    Tail(updates))

updated(g, r) ==
  [st |-> r.st, err |-> r.err, sunk |-> r.sunk, out |-> r.out,
   cur |-> g.ret, before |-> g.st.heap[g.ret]]

\* Variant of updateCurrent: the updates are not applied to `current`
updateCurrentUnapplied(c, updates, so, g) == updated(g, replace(g.st, c, g.ret, so))

\* update after getOpts returned g: g.ret is `current`
updateCurrent(c, updates, so, g) ==
  updated(g, replace([g.st EXCEPT !.heap[g.ret] = applyUpdates(@, updates)], c, g.ret, so))

\* update(updates, setOpts, getOpts); before is `current` as getOpts returned it
update(st, c, updates, so, go) == updateCurrent(c, updates, so, getOpts(st, c, go))

\* delete(props, setOpts, getOpts)
delete(st, c, props, so, go) ==
  update(st, c, [i \in 1..Len(props) |-> <<props[i], Undef>>], NoSetOpts, NoGetOpts)

----------------------------------------------------------------------------
(* Calls.  Each call records itself in op; the heap keeps only what the    *)
(* cache and the caller (the object getOpts returned last) still hold.     *)

\* name: the method; go, so, arg, props, key: its arguments; hash: the string
\* getOpts read; ret: the reference getOpts returned; hit: it was the cached
\* object; val: what getOpt returned; err: the exception; out: the string
\* serialize returned; sunk: setHash was called (with out); before: the map
\* getOpts handed to getOpt or update; prev: the name of the call before
NoOp == [name |-> "new", go |-> NoGetOpts, so |-> NoSetOpts, arg |-> <<>>, props |-> <<>>,
         key |-> "", hash |-> "", ret |-> 0, hit |-> FALSE, val |-> Undef,
         err |-> "", out |-> "", sunk |-> FALSE, before |-> <<>>, prev |-> ""]

Roots(lo, o) == (IF lo.t = "ref" THEN {lo.v} ELSE {}) \cup {o.ret}

Commit(st, o) ==
  /\ location' = st.location
  /\ lastHash' = st.lastHash
  /\ lastOpts' = st.lastOpts
  /\ heap' = [r \in DOMAIN st.heap \cap Roots(st.lastOpts, o) |-> st.heap[r]]
  /\ op' = [o EXCEPT !.prev = op.name]
  /\ cfg' = cfg

Tick == steps < MaxSteps /\ steps' = steps + 1

\* The fragment changes out of band (navigation, an edited address)
Navigate(h) ==
  /\ h # location
  /\ Commit([State EXCEPT !.location = h], [NoOp EXCEPT !.name = "navigate", !.hash = h])

CallGetOpts(go) ==
  \E g \in {getOpts(State, cfg, go)} :
    Commit(g.st, [NoOp EXCEPT !.name = "getOpts", !.go = go, !.hash = g.hash,
                              !.ret = g.ret, !.hit = g.hit])

\* static getOpts(getOpts, hashOpts): new URLHash(hashOpts).getOpts(getOpts),
\* hashOpts being the options this instance was constructed with
CallStaticGetOpts(go) ==
  \E g \in {getOpts([State EXCEPT !.lastHash = Undef, !.lastOpts = Undef], cfg, go)} :
    Commit([State EXCEPT !.heap = (g.ret :> g.st.heap[g.ret]) @@ heap],
           [NoOp EXCEPT !.name = "URLHash.getOpts", !.go = go, !.hash = g.hash,
                        !.ret = g.ret, !.hit = g.hit])

CallGetOpt(name, go) ==
  \E g \in {getOpt(State, cfg, name, go)} :
    Commit(g.st, [NoOp EXCEPT !.name = "getOpt", !.go = go, !.key = name, !.val = g.val,
                              !.hash = g.hash, !.hit = g.hit, !.before = g.before])

CallSerialize(obj, so) ==
  \E x \in {serialize(cfg, obj, so)} :
    Commit(State, [NoOp EXCEPT !.name = "serialize", !.so = so, !.arg = obj,
                               !.err = x.err, !.out = x.out])

\* The caller builds the object reps and passes it to replace
CallReplace(reps, so) ==
  \E r \in {NewRef(heap)} :
    \E x \in {replace([State EXCEPT !.heap = (r :> reps) @@ heap], cfg, r, so)} :
      Commit(x.st, [NoOp EXCEPT !.name = "replace", !.so = so, !.arg = reps,
                                !.err = x.err, !.out = x.out, !.sunk = x.sunk])

CallUpdate(updates, so, go) ==
  \E x \in {update(State, cfg, updates, so, go)} :
    Commit(x.st, [NoOp EXCEPT !.name = "update", !.so = so, !.go = go, !.arg = updates,
                              !.err = x.err, !.out = x.out, !.sunk = x.sunk,
                              !.before = x.before])

CallDelete(props, so, go) ==
  \E x \in {delete(State, cfg, props, so, go)} :
    Commit(x.st, [NoOp EXCEPT !.name = "delete", !.so = so, !.go = go, !.props = props,
                              !.err = x.err, !.out = x.out, !.sunk = x.sunk,
                              !.before = x.before])

----------------------------------------------------------------------------
(* The instance in use: inputs *)

\* new URLHash(opts)
Construct(shortOpt, autoArray, json, tv, fv) ==
  [shortOpt |-> shortOpt, autoArray |-> autoArray, json |-> useJson(json),
   getters |-> DefaultGetters,
   setters |-> [DefaultSetters EXCEPT !.true = tv, !.false = fv]]

Forced(h) == [NoGetOpts EXCEPT !.hasHash = TRUE, !.hash = h]

Hashes == {"", "#", "#a", "#a=1;b=2", "#;a", "#a=[x]", "a=yes"}

GetOptsArgs ==
  {NoGetOpts, [NoGetOpts EXCEPT !.defaults = <<<<"d", Str("0")>>>>]}
  \cup {Forced(h) : h \in {"", "#a", "#a=1;b=2"}}

GetOptArgs ==
  {NoGetOpts,
   [NoGetOpts EXCEPT !.hasShortOpt = TRUE, !.shortOpt = TRUE, !.default = Str("dflt")],
   [NoGetOpts EXCEPT !.hasShortOpt = TRUE, !.shortOpt = FALSE, !.default = Str("dflt")]}

Names == {"a", "mode", "toString"}

Replacements ==
  { <<>>,
    <<<<"a", Num(3)>>, <<"c", Str("x")>>>>,
    <<<<"x", Obj(<<<<"k", Num(1)>>>>)>>>>,
    <<<<"", Null>>>> }

Updates ==
  { <<<<"b", Undef>>, <<"c", Num(3)>>>>,
    <<<<"a", Undef>>>>,
    <<<<"a", Bool(TRUE)>>, <<"x", Obj(<<<<"k", Num(1)>>>>)>>>> }

Deletions == {<<"a">>, <<"b", "c">>}

Init ==
  /\ location \in Hashes
  /\ lastHash = Undef
  /\ lastOpts = Undef
  /\ heap = <<>>
  /\ cfg \in {Construct(FALSE, TRUE, Bool(FALSE), Str("true"), Str("false")),
              Construct(TRUE, TRUE, Bool(TRUE), Str("true"), Str("false"))}
  /\ op = NoOp
  /\ steps = 0

Next ==
  \/ \E h \in Hashes : Tick /\ Navigate(h)
  \/ \E go \in GetOptsArgs : Tick /\ CallGetOpts(go)
  \/ \E name \in Names, go \in GetOptArgs : Tick /\ CallGetOpt(name, go)
  \/ \E reps \in Replacements : Tick /\ CallReplace(reps, NoSetOpts)
  \/ \E updates \in Updates, go \in {NoGetOpts, Forced("#a=1;b=2")} :
       Tick /\ CallUpdate(updates, NoSetOpts, go)
  \/ \E props \in Deletions, go \in {NoGetOpts, Forced("#x;a")} :
       Tick /\ CallDelete(props, NoSetOpts, go)

Spec == Init /\ [][Next]_vars

\* The codec alone: serialize, and the static getOpts on the string returned
Configs ==
  {Construct(FALSE, autoArray, json, Str("true"), Str("false")) :
     autoArray \in BOOLEAN, json \in {Bool(FALSE), Bool(TRUE), Str("array"), Str(O)}}
  \cup {Construct(FALSE, TRUE, Bool(FALSE), Bool(FALSE), Str("false")),
        Construct(FALSE, TRUE, Bool(FALSE), Str("true"), Bool(FALSE))}

Scalars ==
  {Null, Bool(TRUE), Bool(FALSE), Str("x"), Str(""), Str("1"), Num(1), Str("Yes"),
   Str("a;b"), Str("p=q")}

Objects ==
  {<<<<"a", v>>>> : v \in Scalars}
  \cup { <<>>,
         <<<<"", Null>>>>,
         <<<<"", Null>>, <<"a", Null>>>>,
         <<<<"k=v", Null>>>>,
         <<<<"b", Bool(TRUE)>>, <<"a", Bool(FALSE)>>>>,
         <<<<"a", Null>>, <<"b", Str("x")>>, <<"c", Num(-2)>>>>,
         <<<<"list", Arr(<<Num(1), Str("x")>>)>>>>,
         <<<<"list", Arr(<<Num(1), Obj(<<<<"k", Num(2)>>>>)>>)>>>>,
         <<<<"list", Arr(<<>>)>>>>,
         <<<<"a", Arr(<<Str("p"), Null, Num(7)>>)>>, <<"b", Arr(<<Str("q")>>)>>>>,
         <<<<"x", Obj(<<<<"k", Num(1)>>>>)>>>>,
         <<<<"a", Null>>, <<"x", Obj(<<>>)>>>> }

SetOptsArgs ==
  {NoSetOpts, [hasAutoArray |-> TRUE, autoArray |-> FALSE],
   [hasAutoArray |-> TRUE, autoArray |-> TRUE]}

InitCodec ==
  /\ location = ""
  /\ lastHash = Undef
  /\ lastOpts = Undef
  /\ heap = <<>>
  /\ cfg \in Configs
  /\ op = NoOp
  /\ steps = 0

NextCodec ==
  \/ \E obj \in Objects, so \in SetOptsArgs : CallSerialize(obj, so) /\ UNCHANGED steps
  \/ /\ op.name = "serialize"
     /\ op.err = ""
     /\ CallStaticGetOpts(Forced(op.out))
     /\ UNCHANGED steps

SpecCodec == InitCodec /\ [][NextCodec]_vars

----------------------------------------------------------------------------
(* Properties of the codec, checked under SpecCodec *)

DefaultGrammar ==
  cfg.getters = DefaultGetters /\ cfg.setters = DefaultSetters /\ cfg.json = Null

IsScalarMap(m) ==
  \A i \in 1..Len(m) : m[i][2].t \in {"null", "boolean", "string", "number"}

\* A serialize that returned, followed by the static getOpts on its result
Decodes == 
  /\ op.name = "serialize"
  /\ op.err = ""
  /\ op'.name = "URLHash.getOpts"
  /\ op'.go = Forced(op.out)

\* C1 as stated: under the default grammar, getOpts(serialize(m)) returns m
\* for every map m of null, boolean, string and number values.
C1_RoundTrip ==
  [][(Decodes /\ DefaultGrammar /\ IsScalarMap(op.arg)) => heap'[op'.ret] = op.arg]_vars

NoToken(s) == IndexOf(s, ";") = 0 /\ IndexOf(s, "=") = 0

Survives(v) ==
  \/ v.t \in {"null", "boolean", "number"}
  \/ v.t = "string" /\ NoToken(v.v) /\ ToLower(v.v) \notin {"true", "yes", "false", "no"}

RoundTrips(m) ==
  /\ \A i \in 1..Len(m) : NoToken(m[i][1]) /\ Survives(m[i][2])
  /\ m # <<<<"", Null>>>>

NumbersAsText(m) ==
  [i \in 1..Len(m) |-> <<m[i][1], IF m[i][2].t = "number" THEN Str(ToString(m[i][2].v)) ELSE m[i][2]>>]

\* C1 as amended: under the default grammar, for every map m whose names hold
\* neither ';' nor '=', whose values are null, booleans, numbers, or strings
\* that hold neither ';' nor '=' and do not spell true, yes, false or no in any
\* letter case, and that is not the lone entry of the empty name with value
\* null, getOpts(serialize(m)) returns the same names in the same order, each
\* with an equal value, a number coming back as the string of its decimal text.
C1_RoundTripPlain ==
  [][(Decodes /\ DefaultGrammar /\ RoundTrips(op.arg))
       => heap'[op'.ret] = NumbersAsText(op.arg)]_vars

C1_Witness ==
  /\ op.name = "URLHash.getOpts"
  /\ op.prev = "serialize"
  /\ DefaultGrammar
  /\ heap[op.ret] = <<<<"a", Null>>, <<"b", Str("x")>>, <<"c", Str("-2")>>>>

\* C6 as stated: with the true (false) literal of the setters disabled,
\* serialize of a map holding true (false) returns without error and emits
\* only the name of that entry, as a bare flag.
C6_DisabledLiteralIsBareFlag ==
  (/\ op.name = "serialize"
   /\ Len(op.arg) = 1
   /\ \/ op.arg[1][2] = Bool(TRUE) /\ cfg.setters.true = Bool(FALSE)
      \/ op.arg[1][2] = Bool(FALSE) /\ cfg.setters.false = Bool(FALSE))
  => (op.err = "" /\ op.out = "#" \o op.arg[1][1])

\* C7 as stated: with json = true (mode 'both'), serialize of a map holding a
\* plain object emits name, assignment token and the JSON text of the value
\* and throws nothing; objects are refused only when the mode is disabled or
\* arrays-only.
C7_ObjectsUnderBoth ==
  /\ (op.name = "serialize" /\ cfg.json = JSON_ALL /\ Len(op.arg) = 1
        /\ op.arg[1][2].t = "plain")
     => (op.err = ""
         /\ op.out = "#" \o op.arg[1][1] \o cfg.setters.assign \o JSONstringify(op.arg[1][2]))
  /\ (op.name = "serialize" /\ op.err = "Error") => cfg.json \in {Null, JSON_ARR}

ArraysPermitted == cfg.json \in {JSON_ARR, JSON_ALL}

AutoArrayOf(o) == IF o.so.hasAutoArray THEN o.so.autoArray ELSE cfg.autoArray

AllScalar(items) == \A i \in 1..Len(items) : items[i].t \in {"string", "number"}

RECURSIVE FlatText(_)
FlatText(items) ==
  IF items = <<>> THEN ""
  ELSE (IF Head(items).t \in {"string", "number"}
        THEN cfg.setters.assign \o ToStr(Head(items)) ELSE "")
       \o FlatText(Tail(items))

ArrayText(items) ==
  IF ~ArraysPermitted \/ (AutoArrayOf(op) /\ AllScalar(items)) THEN FlatText(items)
  ELSE cfg.setters.assign \o JSONstringify(Arr(items))

RECURSIVE ArraysText(_, _)
ArraysText(m, i) ==
  IF i > Len(m) THEN ""
  ELSE (IF i > 1 THEN cfg.setters.separate ELSE "") \o m[i][1] \o ArrayText(m[i][2].v)
       \o ArraysText(m, i + 1)

\* C9: for an array value serialize emits the flat form (assignment token and
\* element, per string or number element, the others dropped) when JSON arrays
\* are not permitted, or are permitted with autoArray on and every element a
\* string or number; it emits the assignment token and the JSON text of the
\* array when they are permitted and autoArray is off or some element is
\* neither; and it does not throw.
C9_ArrayStrategy ==
  (op.name = "serialize" /\ op.arg # <<>> /\ \A i \in 1..Len(op.arg) : op.arg[i][2].t = "array")
  => (op.err = "" /\ op.out = "#" \o ArraysText(op.arg, 1))

C9_Witness ==
  /\ op.name = "serialize"
  /\ ~ArraysPermitted
  /\ op.arg = <<<<"a", Arr(<<Str("p"), Null, Num(7)>>)>>, <<"b", Arr(<<Str("q")>>)>>>>
  /\ op.out = "#a=p=7;b=q"

----------------------------------------------------------------------------
(* Properties of the coordinator, checked under Spec *)

Removed(patch) == {patch[i][1] : i \in {j \in 1..Len(patch) : patch[j][2] = Undef}}

Assigned(patch) == {patch[i][1] : i \in {j \in 1..Len(patch) : patch[j][2] # Undef}}

\* m holds the assigned names with their patch values, the names of before
\* that the patch does not name with their previous values, and nothing else
IsMerge(m, before, patch) ==
  /\ KeySet(m) = (KeySet(before) \ Removed(patch)) \cup Assigned(patch)
  /\ \A k \in KeySet(m) :
       Own(m, k) = IF k \in Assigned(patch) THEN Own(patch, k) ELSE Own(before, k)

\* An update that reached the sink, followed by getOpts on the committed hash
UpdateDecoded ==
  /\ op.name = "update"
  /\ op.sunk
  /\ op'.name = "getOpts"
  /\ op'.go = NoGetOpts

\* C2 as stated: after update(patch) the string passed to the sink decodes to
\* exactly the merged map: removed names absent, assigned names with their
\* patch value, untouched names with their previous value, no other name.
C2_MergeUpdate ==
  [][UpdateDecoded => IsMerge(heap'[op'.ret], op.before, op.arg)]_vars

\* C2 as amended: when update(patch) passes to the sink a string other than
\* the bare marker '#', getOpts of that string returns exactly the merged map;
\* when it passes the bare marker (the merged map is empty, or holds only the
\* empty name with no assignment), getOpts returns an empty map.
C2_MergeUpdateDecodes ==
  [][UpdateDecoded =>
       IF op.out # "#" THEN IsMerge(heap'[op'.ret], op.before, op.arg)
       ELSE heap'[op'.ret] = <<>>]_vars

C2_Witness ==
  /\ op.name = "getOpts"
  /\ op.prev = "update"
  /\ op.go = NoGetOpts
  /\ location = "#a=1;c=3"
  /\ heap[op.ret] = <<<<"a", Str("1")>>, <<"c", Num(3)>>>>

\* C3 as stated: two consecutive getOpts calls that see the same input string
\* return the identical mapping object.
C3_CacheIdempotence ==
  [][(op.name = "getOpts" /\ op'.name = "getOpts" /\ op'.hash = op.hash)
       => op'.ret = op.ret]_vars

\* C3 as amended: two consecutive getOpts calls that see the same input
\* string, when that string is neither empty nor the bare marker '#', return
\* the identical mapping object, the second without a re-parse.
C3_CacheIdempotenceNonEmpty ==
  [][(op.name = "getOpts" /\ op'.name = "getOpts" /\ op'.hash = op.hash
        /\ op.hash \notin {"", "#"})
       => (op'.ret = op.ret /\ op'.hit /\ heap' = heap)]_vars

C3_Witness ==
  /\ steps = 2
  /\ op.name = "getOpts"
  /\ op.prev = "getOpts"
  /\ op.hit
  /\ lastHash = Str(op.hash)

\* The getOpts call of this step parsed its input into a new map and retained
\* the input and that map
Reparsed ==
  /\ op'.ret \notin DOMAIN heap
  /\ heap'[op'.ret] = parseHash(cfg, op'.hash, op'.go.defaults)
  /\ lastHash' = Str(op'.hash)
  /\ lastOpts' = Ref(op'.ret)

\* The getOpts call of this step returned the map retained before it
ReturnedRetained == lastOpts.t = "ref" /\ op'.ret = lastOpts.v

\* C4 as stated: getOpts returns the retained map only when its input equals
\* the retained input and was not forced through getOpts.hash; a decode with a
\* different input, or with a forced input, re-parses and replaces the pair.
C4_CacheInvalidation ==
  [][op'.name = "getOpts" =>
       /\ ReturnedRetained => (lastHash = Str(op'.hash) /\ ~op'.go.hasHash)
       /\ (lastHash # Str(op'.hash) \/ op'.go.hasHash) => Reparsed]_vars

\* C4 as amended: the retained input and the retained map are set together;
\* getOpts returns the retained map exactly when its input, forced through
\* getOpts.hash or not, is neither empty nor '#' and equals the retained
\* input; with an input that is neither empty nor '#' and differs from the
\* retained input it re-parses and replaces the pair; with an empty or '#'
\* input it leaves the pair as it was.
C4_CacheInvalidationByEquality ==
  [][op'.name = "getOpts" =>
       /\ (lastHash' = Undef) = (lastOpts' = Undef)
       /\ ReturnedRetained = (op'.hash \notin {"", "#"} /\ lastHash = Str(op'.hash))
       /\ (op'.hash \notin {"", "#"} /\ lastHash # Str(op'.hash)) => Reparsed
       /\ op'.hash \in {"", "#"} => UNCHANGED <<lastHash, lastOpts>>]_vars

C4_Witness ==
  /\ op.name = "getOpts"
  /\ op.go.hasHash
  /\ op.hit
  /\ lastHash = Str(op.go.hash)
  /\ lastOpts = Ref(op.ret)

HoldsObject(m) == \E i \in 1..Len(m) : m[i][2].t = "plain"

HoldsObjectAfter(before, patch) ==
  \/ \E k \in Assigned(patch) : Own(patch, k).t = "plain"
  \/ \E k \in KeySet(before) \ (Removed(patch) \cup Assigned(patch)) : Own(before, k).t = "plain"

\* C5: with JSON disabled, replace(m), and update ending in such an m, with a
\* map m that holds a non-array object throws to the caller and does not call
\* the sink: the location hash stays as it was.
C5_ObjectIsFatal ==
  [][(/\ cfg.json = Null
      /\ \/ op'.name = "replace" /\ HoldsObject(op'.arg)
         \/ op'.name = "update" /\ HoldsObjectAfter(op'.before, op'.arg))
       => (op'.err # "" /\ ~op'.sunk /\ location' = location)]_vars

C5_Witness ==
  /\ cfg.json = Null
  /\ op.name = "update"
  /\ HoldsObjectAfter(op.before, op.arg)
  /\ op.err = "Error"
  /\ ~op.sunk

ShortOptOf(o) == IF o.go.hasShortOpt THEN o.go.shortOpt ELSE cfg.shortOpt

LoneFlag(m) == Len(m) = 1 /\ m[1][2] = Null

\* C8 as stated: getOpt returns the decoded value of name whenever name is
\* present in the decoded map; otherwise, with shortOpt on and a decoded map
\* of exactly one entry whose value is null, that entry's name; in every other
\* case opts.default.
C8_SingleOptionRead ==
  op.name = "getOpt" =>
    op.val = IF Has(op.before, op.key) THEN Own(op.before, op.key)
             ELSE IF ShortOptOf(op) /\ LoneFlag(op.before) THEN Str(op.before[1][1])
             ELSE op.go.default

\* C8 as amended: for a name that is not a property every object inherits,
\* getOpt returns the decoded value of name whenever name is present in the
\* decoded map with a value other than undefined (an explicit null included);
\* otherwise (name absent, or present with the undefined value a failed JSON
\* parse leaves), with shortOpt on and a decoded map of exactly one entry
\* whose value is null, that entry's name; in every other case opts.default.
C8_SingleOptionReadDefined ==
  (op.name = "getOpt" /\ op.key \notin ProtoNames) =>
    op.val = IF Has(op.before, op.key) /\ Own(op.before, op.key) # Undef
             THEN Own(op.before, op.key)
             ELSE IF ShortOptOf(op) /\ LoneFlag(op.before) THEN Str(op.before[1][1])
             ELSE op.go.default

C8_Witness ==
  /\ op.name = "getOpt"
  /\ op.key = "a"
  /\ Has(op.before, "a")
  /\ Own(op.before, "a") = Undef
  /\ op.val = Str("dflt")

RemovePatch(props) == [i \in 1..Len(props) |-> <<props[i], Undef>>]

RetainedMap(st) == IF st.lastOpts.t = "ref" THEN st.heap[st.lastOpts.v] ELSE st.lastOpts

\* C10 as stated: delete(props, setOpts, getOpts) has the effect of
\* update(patch, setOpts, getOpts), patch mapping every name of props to
\* undefined, on the committed hash and on the retained pair.
C10_DeleteIsUpdate ==
  [][op'.name = "delete" =>
       LET u == update(State, cfg, RemovePatch(op'.props), op'.so, op'.go)
       IN /\ location' = u.st.location
          /\ lastHash' = u.st.lastHash
          /\ RetainedMap(State)' = RetainedMap(u.st)]_vars

\* An update that serialize aborted, made without a forced hash
UpdateAborted(o) == o.name = "update" /\ o.err # "" /\ o.go = NoGetOpts

\* C11 as stated: when update(patch) aborts because serialize throws, the
\* sink is not called and the retained pair is what it was before the call,
\* and a following getOpts on the unchanged hash returns a map with the keys
\* and values that getOpts returned just before the update applied the patch.
C11_FailedUpdateKeepsDecodeState ==
  [][/\ UpdateAborted(op') =>
          /\ ~op'.sunk
          /\ location' = location
          /\ lastHash' = lastHash
          /\ RetainedMap(State)' = RetainedMap(State)
     /\ (UpdateAborted(op) /\ op'.name = "getOpts" /\ op'.go = NoGetOpts)
          => heap'[op'.ret] = op.before]_vars

====
